---- MODULE Spec2Model ----
(***************************************************************************)
(* The Octopus Energy API client (src/src/open_octopus/client.py) and the  *)
(* command-line interface built on it (src/src/open_octopus/cli.py), as a  *)
(* state machine.  Every `await` on the HTTP client is a point where the   *)
(* request is in flight: one action sends, a later one receives.          *)
(***************************************************************************)
EXTENDS Integers, Sequences, FiniteSets, TLC

\* ------------------------------------------------------------------ bounds
\* The clock runs from 0 to MaxTime minutes in ticks of TickStep minutes.
MaxTime == 60
TickStep == 5
\* Iterations of the watch and tui loops that are explored.
MaxIter == 2
\* Entries in a list of a response.
MaxEvents == 2

\* ------------------------------------------------------- program constants
\* timedelta(minutes=55): the lifetime the client gives a token.
TOKEN_TTL == 55
\* Python's None for the fields held as numbers (_token, _token_expires).
NoneT == -1
\* Python's None for the fields held as strings.
None == "None"

GRAPHQL_URLS(r) ==
  CASE r = "uk" -> "https://api.octopus.energy/v1/graphql/"
    [] r = "japan" -> "https://api.oejp-kraken.energy/v1/graphql/"
    [] OTHER -> "https://api.oejp-kraken.energy/v1/graphql/"
REST_API_URL == "https://api.octopus.energy/v1"

\* bool(x) of an Optional[str].
Truthy(x) == x \notin {None, ""}

VARIABLES
  \* OctopusClient fields
  region, email, password, api_key, account, mpan, meter_serial,
  gas_mprn, gas_meter_serial,
  _token, _refresh_token, _token_expires, _graphql_url,
  \* datetime.now(), in minutes
  now,
  \* the command line: environment, command, position in it, exit code
  env, cmd, sec, opi, iter, exitCode, fetched,
  \* the running client method: its name, the step it is at, where it waits
  op, stage, pc, q, account_number, device_id,
  \* HTTP requests sent and not yet answered
  inflight,
  \* how the last call ended: exception raised (None when none) and its message,
  \* or the value returned
  exc, excMsg, ret,
  \* observations: the last response handled and what the handler made of it,
  \* the token fields when _get_token was entered, the tokens the server issued,
  \* whether an exchange was ever sent while the cached token was still valid,
  \* whether a request of the running method call has failed, and the last
  \* request of the running command that failed, the names of the requests the
  \* running method call has sent and the answers it has handled, in order
  out, tokBefore, issued, earlyExchange, failedInCall, lastFailed, sent, log,
  \* the data a method works on once its query has returned, and the UTC offset
  \* of the local clock, in minutes
  args, utcoffset

client == <<region, email, password, api_key, mpan, meter_serial, gas_mprn,
           gas_meter_serial, _graphql_url>>
tokens == <<_token, _refresh_token, _token_expires>>
cli == <<env, cmd, sec, opi, iter, exitCode, fetched>>
call == <<op, stage, pc, q, account_number, device_id>>
result == <<exc, excMsg, ret>>
ghost == <<out, tokBefore, issued, earlyExchange, failedInCall, lastFailed, sent, log>>
given == <<args, utcoffset>>
vars == <<client, account, tokens, now, cli, call, inflight, result, ghost, given>>

\* --------------------------------------------------------------- the client
\* OctopusClient.__init__: the parameters in the order of the signature
\* (email, password, api_key, account, region, mpan, meter_serial, gas_mprn,
\* gas_meter_serial).
OctopusClient(p_email, p_password, p_api_key, p_account, p_region, p_mpan, p_serial, p_gas, p_gas_serial) ==
  [region |-> p_region, email |-> p_email, password |-> p_password,
   api_key |-> p_api_key, account |-> p_account, mpan |-> p_mpan,
   meter_serial |-> p_serial, gas_mprn |-> p_gas,
   gas_meter_serial |-> p_gas_serial,
   _token |-> NoneT, _refresh_token |-> None, _token_expires |-> NoneT,
   _graphql_url |-> GRAPHQL_URLS(p_region)]

is_japan == region = "japan"

\* The expiry test with <= in place of <.
TokenValidInclusive == _token # NoneT /\ _token_expires # NoneT /\ now <= _token_expires

\* The expiry test the wrong way round.
TokenValidReversed == _token # NoneT /\ _token_expires # NoneT /\ now > _token_expires

\* The condition of _get_token's first line: a cached token that has not expired.
TokenValid == _token # NoneT /\ _token_expires # NoneT /\ now < _token_expires

\* The Japan flow with "or" in place of "and" in the email/password test.
JapanVariablesEither ==
  IF Truthy(_refresh_token) THEN {<<"refreshToken", _refresh_token>>}
  ELSE IF Truthy(email) \/ Truthy(password)
       THEN {<<"email", email>>, <<"password", password>>}
       ELSE {}

\* The Japan flow with email and password tried before the refresh token.
JapanVariablesEmailFirst ==
  IF Truthy(email) /\ Truthy(password)
  THEN {<<"email", email>>, <<"password", password>>}
  ELSE IF Truthy(_refresh_token) THEN {<<"refreshToken", _refresh_token>>}
       ELSE {}

\* The variables of the token exchange the Japan flow sends.
JapanVariables ==
  IF Truthy(_refresh_token) THEN {<<"refreshToken", _refresh_token>>}
  ELSE IF Truthy(email) /\ Truthy(password)
       THEN {<<"email", email>>, <<"password", password>>}
       ELSE {}

\* The variables of the token exchange the UK flow sends.
UkVariables == IF Truthy(api_key) THEN {<<"key", api_key>>} ELSE {}

\* The two flows under the wrong regions.
ExchangeVariablesSwapped == IF is_japan THEN UkVariables ELSE JapanVariables

ExchangeVariables == IF is_japan THEN JapanVariables ELSE UkVariables

\* No payload can be built: _get_token raises before any request.
MissingCredentials == ExchangeVariables = {}

MissingCredentialsMessage ==
  IF is_japan THEN "Japan region requires email and password"
  ELSE "UK region requires API key"

\* ------------------------------------------------------------ HTTP messages
Request(kind, url, name, auth, variables, src) ==
  [kind |-> kind, url |-> url, name |-> name, auth |-> auth,
   vars |-> variables, at |-> now, src |-> src]

\* The "errors" member of a body that has one: a non-empty list of messages.
ErrorLists == {<<"m1", "m2">>}

\* What a server can answer: a body without "errors" and with data d, a body with
\* "errors" (under a success or an error status), an error status with another
\* body, or no answer at all (status 0: the connection failed).
Responses(D) ==
  {[status |-> 200, has_errors |-> FALSE, errors |-> <<>>, data |-> d,
    token |-> NoneT, refresh |-> "absent"] : d \in D}
  \cup {[status |-> s, has_errors |-> TRUE, errors |-> e, data |-> <<>>,
         token |-> NoneT, refresh |-> "absent"] : s \in {200, 500}, e \in ErrorLists}
  \cup {[status |-> s, has_errors |-> FALSE, errors |-> <<>>, data |-> <<>>,
         token |-> NoneT, refresh |-> "absent"] : s \in {500, 0}}

\* The refreshToken member of a successful exchange: the UK mutation does not
\* select it; the Japan mutation does, and the member can be null.
RefreshMembers == IF is_japan THEN {"absent", None, "r1", "r2"} ELSE {"absent"}

\* Answers to obtainKrakenToken: a token issued now, or a failure.
TokenResponses ==
  {[status |-> 200, has_errors |-> FALSE, errors |-> <<>>, data |-> <<>>,
    token |-> now, refresh |-> r] : r \in RefreshMembers}
  \cup Responses({})

\* httpx: no answer raises ConnectError from post/get; raise_for_status raises
\* HTTPStatusError on a 4xx/5xx status.
TransportError(resp) ==
  IF resp.status = 0 THEN "ConnectError"
  ELSE IF resp.status >= 400 THEN "HTTPStatusError"
  ELSE None

\* _graphql after the await: the exception raised (None when it returns data).
GraphqlError(resp) ==
  IF TransportError(resp) # None THEN TransportError(resp)
  ELSE IF resp.has_errors THEN "APIError"
  ELSE None

\* _get_token after the await: the exception raised (None when it stores a token).
TokenError(resp) ==
  IF TransportError(resp) # None THEN TransportError(resp)
  ELSE IF resp.has_errors THEN "AuthenticationError"
  ELSE None

\* The last error's message in place of the first's.
FirstMessageLast(resp) == IF resp.has_errors THEN resp.errors[Len(resp.errors)] ELSE ""

\* data["errors"][0]["message"]
FirstMessage(resp) == IF resp.has_errors THEN resp.errors[1] ELSE ""

ErrorMessage(e, resp) ==
  IF e \in {"APIError", "AuthenticationError"} THEN FirstMessage(resp) ELSE ""

OctopusErrors == {"AuthenticationError", "APIError", "ConfigurationError"}

NoResponse == [status |-> 0, has_errors |-> FALSE, errors |-> <<>>, data |-> <<>>,
               token |-> NoneT, refresh |-> "absent"]

\* An observation of one handler run: which function, how many HTTP requests it
\* had sent, the response it handled, the exception it raised and its message.
\* and the data it returned.
Outcome(fn, nreq, resp, e, msg, data) ==
  [fn |-> fn, nreq |-> nreq, resp |-> resp, exc |-> e, msg |-> msg, data |-> data]

NoOut == Outcome("none", 0, NoResponse, None, "", <<>>)

\* return data["data"]
GraphqlData(resp) == resp.data

\* ------------------------------------------------------ JSON and datetimes
\* A timestamp member of a JSON object: the wall-clock time t it spells, in
\* minutes, and what follows it: "Z" or "+09:00" (a UTC offset), or, for t = 0,
\* "absent" (the object has no such key), "null", or "invalid" (a string that
\* is no ISO 8601 timestamp).
Timestamp(t, suffix) == [t |-> t, suffix |-> suffix]

\* datetime.fromisoformat(o[key].replace("Z", "+00:00")): the aware datetime (its
\* wall-clock fields and its UTC offset, in minutes), or the exception raised.
ReadTimestamp(s) ==
  CASE s.suffix = "absent" -> [exc |-> "KeyError", wall |-> 0, off |-> 0]
    [] s.suffix = "null" -> [exc |-> "AttributeError", wall |-> 0, off |-> 0]
    [] s.suffix = "Z" -> [exc |-> None, wall |-> s.t, off |-> 0]
    [] s.suffix = "+09:00" -> [exc |-> None, wall |-> s.t, off |-> 540]
    [] OTHER -> [exc |-> "ValueError", wall |-> 0, off |-> 0]

\* The instant of an aware datetime, in minutes of UTC: what comparisons and
\* sorted() order aware datetimes by.
Instant(d) == d.wall - d.off

\* ------------------------------------------------------- the client methods
\* A method is a sequence of steps.  k: "ensure" (_ensure_account), "gql" (a
\* _graphql call), "rest" (a REST GET), "check_meter" (the mpan/meter_serial
\* check).  acct: where the query's account variable comes from ("local": the
\* value _ensure_account returned, "self": self.account, "device": no account,
\* the device id).  stop: the method returns None when the data is empty.
\* suppress: the step catches httpx.HTTPError.
Step(k, name, acct, stop, suppress) ==
  [k |-> k, q |-> name, acct |-> acct, stop |-> stop, suppress |-> suppress]

Ensure == Step("ensure", "accountViewer", "none", FALSE, FALSE)
Gql(name, acct, stop) == Step("gql", name, acct, stop, FALSE)
Rest(name, suppress) == Step("rest", name, "none", FALSE, suppress)
CheckMeter == Step("check_meter", "", "none", FALSE, FALSE)
CheckGasMeter == Step("check_gas_meter", "", "none", FALSE, FALSE)

get_account == <<Ensure, Gql("GetAccount", "local", FALSE)>>
get_consumption_japan == <<Ensure, Gql("halfHourlyReadings", "local", FALSE)>>
get_consumption_uk == <<CheckMeter, Rest("consumption", FALSE)>>
\* The two regions' implementations under the wrong regions.
get_consumption_swapped(r) ==
  IF r = "japan" THEN get_consumption_uk ELSE get_consumption_japan

get_consumption(r) == IF r = "japan" THEN get_consumption_japan ELSE get_consumption_uk
\* get_tariff with the unit-rate request made a second time.
get_tariff_retried ==
  <<Gql("GetTariff", "self", TRUE), Rest("electricity-tariffs", TRUE),
    Rest("electricity-tariffs", TRUE)>>

\* get_tariff without the except clause around the unit-rate request.
get_tariff_unsuppressed ==
  <<Gql("GetTariff", "self", TRUE), Rest("electricity-tariffs", FALSE)>>

get_tariff == <<Gql("GetTariff", "self", TRUE), Rest("electricity-tariffs", TRUE)>>
get_gas_tariff == <<Gql("GetGasTariff", "self", TRUE), Rest("gas-tariffs", TRUE)>>
get_gas_consumption == <<CheckGasMeter, Rest("gas-consumption", FALSE)>>
get_dispatches == <<Gql("GetDispatches", "self", FALSE)>>
get_completed_dispatches == <<Gql("GetCompletedDispatches", "self", FALSE)>>
get_saving_sessions == <<Gql("GetSavingSessions", "self", FALSE)>>
get_live_power == <<Gql("DiscoverDevices", "self", TRUE), Gql("GetTelemetry", "device", FALSE)>>
get_smart_devices == <<Gql("GetDevices", "self", FALSE)>>

Steps(m, r) ==
  CASE m = "get_account" -> get_account
    [] m = "get_consumption" -> get_consumption(r)
    [] m = "get_daily_usage" -> get_consumption(r)
    [] m = "get_tariff" -> get_tariff
    [] m = "get_gas_tariff" -> get_gas_tariff
    [] m = "get_gas_consumption" -> get_gas_consumption
    [] m = "get_dispatches" -> get_dispatches
    [] m = "get_dispatch_status" -> get_dispatches
    [] m = "get_completed_dispatches" -> get_completed_dispatches
    [] m = "get_saving_sessions" -> get_saving_sessions
    [] m = "get_live_power" -> get_live_power
    [] m = "get_smart_devices" -> get_smart_devices
    [] OTHER -> <<>>

\* The account-scoped operations of the client.
AccountMethods ==
  {"get_account", "get_consumption", "get_tariff", "get_gas_tariff", "get_dispatches",
   "get_completed_dispatches", "get_saving_sessions", "get_live_power",
   "get_smart_devices"}

\* The GraphQL operations that carry an account variable.
AccountQueries ==
  {"GetAccount", "halfHourlyReadings", "GetTariff", "GetGasTariff", "GetDispatches",
   "GetCompletedDispatches", "GetSavingSessions", "DiscoverDevices", "GetDevices"}

\* The smartMeterTelemetry a server can return: no entry, or two of which the
\* last has a readAt that is there, missing, no timestamp or null, and a demand
\* that is a number, null or no number.
Telemetry ==
  {<<>>}
  \cup {<<[readAt |-> Timestamp(0, "absent"), demand |-> "456"],
          [readAt |-> Timestamp(t, z), demand |-> d]>> :
          t \in {720}, z \in {"Z", "absent", "invalid", "null"}, d \in {"1200"}}
  \cup {<<[readAt |-> Timestamp(0, "absent"), demand |-> "456"],
          [readAt |-> Timestamp(720, "Z"), demand |-> d]>> : d \in {"null", "1.2.3"}}

\* The data a server can return for a query: a list, <<>> when empty or null.
DataOf(name) ==
  CASE name = "accountViewer" -> {<<>>, <<"A-1", "A-2">>}
    [] name = "DiscoverDevices" -> {<<>>, <<"", "dev-1">>}
    [] name = "GetTelemetry" -> Telemetry
    [] name = "GetAccount" -> {<<"x">>}
    [] OTHER -> {<<>>, <<"x">>}

\* _discover_meter_device: the first deviceId that is not empty, in a list of
\* one or none.
RECURSIVE FirstDevice(_)
FirstDevice(devices) ==
  IF devices = <<>> THEN <<>>
  ELSE IF Truthy(Head(devices)) THEN <<Head(devices)>>
  ELSE FirstDevice(Tail(devices))

\* int(latest.get("demand") or 0)
DemandWatts(demand) ==
  CASE demand \in {"absent", "null"} -> [exc |-> None, n |-> 0]
    [] demand = "456" -> [exc |-> None, n |-> 456]
    [] demand = "1200" -> [exc |-> None, n |-> 1200]
    [] OTHER -> [exc |-> "ValueError", n |-> 0]

\* get_live_power after its query: None without telemetry, else the LivePower
\* of the last entry, None when building it raises ValueError or KeyError.
LivePower(telemetry) ==
  IF telemetry = <<>> THEN [exc |-> None, value |-> <<>>]
  ELSE LET latest == telemetry[Len(telemetry)]
           demand == DemandWatts(latest.demand)
           read_at == ReadTimestamp(latest.readAt)
           raised == IF demand.exc # None THEN demand.exc ELSE read_at.exc
       IN IF raised \in {"ValueError", "KeyError"} THEN [exc |-> None, value |-> <<>>]
          ELSE IF raised # None THEN [exc |-> raised, value |-> <<>>]
          ELSE [exc |-> None,
                value |-> <<[demand_watts |-> demand.n, read_at |-> read_at]>>]

\* What a method makes of the data of a query: the exception it raises, or the
\* value it goes on with.
Parsed(name, data) ==
  CASE name = "DiscoverDevices" -> [exc |-> None, value |-> FirstDevice(data)]
    [] name = "GetTelemetry" -> LivePower(data)
    [] OTHER -> [exc |-> None, value |-> data]

NoQuery == [name |-> "", vars |-> {}]
InMethod == stage <= Len(Steps(op, region))
CurStep == Steps(op, region)[stage]

\* The variables of the query of the current step.
QueryVariables ==
  CASE CurStep.acct = "local" -> {<<"account", account_number>>}
    [] CurStep.acct = "self" -> {<<"account", account>>}
    [] CurStep.acct = "device" -> {<<"deviceId", device_id>>}
    [] OTHER -> {}

\* ------------------------------------------------------------------ actions
\* An exception leaves the method: the caller sees it.
Raise(e, msg) == exc' = e /\ excMsg' = msg /\ ret' = <<>> /\ pc' = "raised"

\* Time passes while the program waits.  A library user can be slow between
\* calls and the clock can move while a request is out.  In a command the only
\* wait of minutes is the sleep of the watch and tui loops.
Waiting ==
  IF cmd = "api"
  THEN pc \in {"idle", "returned", "raised", "await_token", "await_query", "await_rest"}
  ELSE pc = "sleep"

Tick ==
  /\ Waiting
  /\ now + TickStep <= MaxTime
  /\ now' = now + TickStep
  /\ UNCHANGED <<given, client, account, tokens, cli, call, inflight, result, ghost>>

\* The entry of a client method, with the device id it is given if it takes one.
Enter(m, d) ==
  /\ op' = m /\ stage' = 1 /\ pc' = "run" /\ q' = NoQuery
  /\ account_number' = None /\ device_id' = d
  /\ exc' = None /\ excMsg' = "" /\ ret' = <<>>
  /\ out' = NoOut /\ tokBefore' = tokens /\ failedInCall' = FALSE
  /\ sent' = <<>> /\ log' = <<>>

\* A program using the client as a library calls one of its methods.
Call(m) ==
  /\ cmd = "api"
  /\ pc \in {"idle", "returned", "raised"}
  /\ Enter(m, None)
  /\ lastFailed' = "" /\ args' = <<>>
  /\ UNCHANGED <<utcoffset, client, account, tokens, now, cli, inflight, issued,
                 earlyExchange>>

\* ... or get_live_power with a device id.
CallLivePower(d) ==
  /\ cmd = "api"
  /\ pc \in {"idle", "returned", "raised"}
  /\ Enter("get_live_power", d)
  /\ lastFailed' = "" /\ args' = <<d>>
  /\ UNCHANGED <<utcoffset, client, account, tokens, now, cli, inflight, issued,
                 earlyExchange>>

\* get_live_power was given a device id: it discovers none.
DeviceGiven == CurStep.q = "DiscoverDevices" /\ Truthy(device_id)

SkipDiscovery ==
  /\ pc = "run" /\ InMethod /\ DeviceGiven
  /\ stage' = stage + 1
  /\ UNCHANGED <<given, client, account, tokens, now, cli, op, pc, q, account_number,
                 device_id, inflight, result, ghost>>

\* _ensure_account up to its first await.
EnsureAccount ==
  /\ pc = "run" /\ InMethod /\ CurStep.k = "ensure"
  /\ IF Truthy(account)
     THEN /\ account_number' = account /\ stage' = stage + 1
          /\ UNCHANGED <<pc, q, result, tokBefore, out>>
     ELSE IF is_japan
     THEN /\ q' = [name |-> "accountViewer", vars |-> {}] /\ pc' = "get_token"
          /\ tokBefore' = tokens /\ out' = NoOut
          /\ UNCHANGED <<account_number, stage, result>>
     ELSE /\ Raise("ConfigurationError", "Account number required for UK region")
          /\ UNCHANGED <<account_number, stage, q, tokBefore, out>>
  /\ UNCHANGED <<given, client, account, tokens, now, cli, op, device_id, inflight,
                 issued, earlyExchange, failedInCall, lastFailed, sent, log>>

\* _get_consumption_uk's check of mpan and meter_serial.
CheckMeterIds ==
  /\ pc = "run" /\ InMethod /\ CurStep.k = "check_meter"
  /\ IF ~Truthy(mpan) \/ ~Truthy(meter_serial)
     THEN /\ Raise("ConfigurationError", "MPAN and meter serial required for UK consumption data")
          /\ UNCHANGED stage
     ELSE /\ stage' = stage + 1 /\ UNCHANGED <<pc, result>>
  /\ UNCHANGED <<given, client, account, tokens, now, cli, op, q, account_number, device_id,
                 inflight, ghost>>

\* get_gas_consumption's check of gas_mprn and gas_meter_serial.
CheckGasIds ==
  /\ pc = "run" /\ InMethod /\ CurStep.k = "check_gas_meter"
  /\ IF ~Truthy(gas_mprn) \/ ~Truthy(gas_meter_serial)
     THEN /\ Raise("ConfigurationError", "gas_mprn and gas_meter_serial required for gas data")
          /\ UNCHANGED stage
     ELSE /\ stage' = stage + 1 /\ UNCHANGED <<pc, result>>
  /\ UNCHANGED <<given, client, account, tokens, now, cli, op, q, account_number, device_id,
                 inflight, ghost>>

\* _graphql started as a task that the method does not await: the query is posted
\* and the method goes on.
CallGraphqlDetached ==
  /\ pc = "run" /\ InMethod /\ CurStep.k = "gql"
  /\ inflight' = inflight \cup
       {Request("query", _graphql_url, CurStep.q, _token, QueryVariables, "cached")}
  /\ stage' = stage + 1
  /\ UNCHANGED <<given, client, account, tokens, now, cli, op, pc, q, account_number, device_id,
                 result, ghost>>

\* A method calls _graphql with its query and variables.
CallGraphql ==
  /\ pc = "run" /\ InMethod /\ CurStep.k = "gql" /\ ~DeviceGiven
  /\ q' = [name |-> CurStep.q, vars |-> QueryVariables]
  /\ pc' = "get_token"
  /\ tokBefore' = tokens /\ out' = NoOut
  /\ UNCHANGED <<given, client, account, tokens, now, cli, op, stage, account_number, device_id,
                 inflight, result, issued, earlyExchange, failedInCall, lastFailed,
                 sent, log>>

\* The POST of _graphql: the query with the token in the Authorization header.
QueryRequest(token, src) == Request("query", _graphql_url, q.name, token, q.vars, src)

\* The POST of _get_token.
ExchangeRequest ==
  Request("exchange", _graphql_url, "obtainKrakenToken", NoneT, ExchangeVariables, "")

\* _get_token returns the cached token; _graphql posts the query.
GetTokenCached ==
  /\ pc = "get_token"
  /\ TokenValid
  /\ inflight' = inflight \cup {QueryRequest(_token, "cached")}
  /\ sent' = Append(sent, q.name)
  /\ pc' = "await_query"
  /\ UNCHANGED <<given, client, account, tokens, now, cli, op, stage, q, account_number,
                 device_id, result, out, tokBefore, issued, earlyExchange, failedInCall,
                 lastFailed, log>>

\* _get_token finds no credentials for the region's flow.
GetTokenNoCredentials ==
  /\ pc = "get_token"
  /\ ~TokenValid
  /\ MissingCredentials
  /\ Raise("AuthenticationError", MissingCredentialsMessage)
  /\ out' = Outcome("_get_token", 0, NoResponse, "AuthenticationError",
                    MissingCredentialsMessage, <<>>)
  /\ UNCHANGED <<given, client, account, tokens, now, cli, op, stage, q, account_number,
                 device_id, inflight, tokBefore, issued, earlyExchange, failedInCall,
                 lastFailed, sent, log>>

\* _get_token posts the token exchange.
GetTokenExchange ==
  /\ pc = "get_token"
  /\ ~TokenValid
  /\ ~MissingCredentials
  /\ inflight' = inflight \cup {ExchangeRequest}
  /\ sent' = Append(sent, "obtainKrakenToken")
  /\ pc' = "await_token"
  /\ earlyExchange' = (earlyExchange \/ (_token # NoneT /\ _token_expires # NoneT
                                          /\ now < _token_expires))
  /\ UNCHANGED <<given, client, account, tokens, now, cli, op, stage, q, account_number,
                 device_id, result, out, tokBefore, issued, failedInCall, lastFailed, log>>

\* What a successful exchange stores.
StoredToken(resp) == resp.token
StoredRefresh(resp) == IF resp.refresh # "absent" THEN resp.refresh ELSE _refresh_token
StoredExpires == now + TOKEN_TTL

\* The answer to the token exchange arrives: _get_token raises, or stores the
\* token and returns it to _graphql, which posts the query.
RecvToken ==
  /\ pc = "await_token"
  /\ \E r \in inflight, resp \in TokenResponses :
       /\ r.kind = "exchange"
       /\ log' = Append(log, [name |-> r.name, resp |-> resp])
       /\ LET e == TokenError(resp) IN
          /\ out' = Outcome("_get_token", 1, resp, e, ErrorMessage(e, resp), <<>>)
          /\ IF e # None
             THEN /\ Raise(e, ErrorMessage(e, resp))
                  /\ inflight' = inflight \ {r}
                  /\ failedInCall' = TRUE
                  /\ lastFailed' = r.name
                  /\ UNCHANGED <<tokens, issued, sent>>
             ELSE /\ _token' = StoredToken(resp)
                  /\ _refresh_token' = StoredRefresh(resp)
                  /\ _token_expires' = StoredExpires
                  /\ issued' = issued \cup {resp.token}
                  /\ inflight' = (inflight \ {r}) \cup {QueryRequest(StoredToken(resp), "fresh")}
                  /\ sent' = Append(sent, q.name)
                  /\ pc' = "await_query"
                  /\ UNCHANGED <<result, failedInCall, lastFailed>>
  /\ UNCHANGED <<given, client, account, now, cli, op, stage, q, account_number, device_id,
                 tokBefore, earlyExchange>>

\* The answer to a query arrives: _graphql raises or returns data["data"], and
\* the method goes on to its next await.
RecvQuery ==
  /\ pc = "await_query"
  /\ \E r \in inflight, resp \in Responses(DataOf(q.name)) :
       /\ r.kind = "query"
       /\ inflight' = inflight \ {r}
       /\ log' = Append(log, [name |-> r.name, resp |-> resp])
       /\ LET e == GraphqlError(resp) IN
          /\ out' = Outcome("_graphql", out.nreq + 1, resp, e, ErrorMessage(e, resp),
                          IF e = None THEN GraphqlData(resp) ELSE <<>>)
          /\ IF e # None
             THEN /\ Raise(e, ErrorMessage(e, resp))
                  /\ failedInCall' = TRUE
                  /\ lastFailed' = r.name
                  /\ UNCHANGED <<account, account_number, device_id, stage>>
             ELSE /\ UNCHANGED <<failedInCall, lastFailed>>
                  /\ IF CurStep.k = "ensure"
                     THEN IF GraphqlData(resp) # <<>>
                          THEN /\ account' = GraphqlData(resp)[1]
                               /\ account_number' = GraphqlData(resp)[1]
                               /\ stage' = stage + 1 /\ pc' = "run"
                               /\ UNCHANGED <<device_id, result>>
                          ELSE /\ Raise("ConfigurationError", "No account found for this user")
                               /\ UNCHANGED <<account, account_number, device_id, stage>>
                     ELSE LET p == Parsed(q.name, GraphqlData(resp)) IN
                          IF p.exc # None
                          THEN /\ Raise(p.exc, "")
                               /\ UNCHANGED <<account, account_number, device_id, stage>>
                          ELSE IF CurStep.stop /\ p.value = <<>>
                          THEN /\ pc' = "returned" /\ ret' = <<>>
                               /\ UNCHANGED <<account, account_number, device_id, stage,
                                              exc, excMsg>>
                          ELSE /\ stage' = stage + 1 /\ pc' = "run" /\ ret' = p.value
                               /\ device_id' = IF q.name = "DiscoverDevices"
                                               THEN p.value[1] ELSE device_id
                               /\ UNCHANGED <<account, account_number, exc, excMsg>>
  /\ UNCHANGED <<given, client, tokens, now, cli, op, q, tokBefore, issued, earlyExchange,
                 sent>>

\* A method sends its REST GET, with the API key as basic-auth user.
CallRest ==
  /\ pc = "run" /\ InMethod /\ CurStep.k = "rest"
  /\ inflight' = inflight \cup
       {Request("rest", REST_API_URL, CurStep.q, NoneT, {<<"user", api_key>>}, "")}
  /\ sent' = Append(sent, CurStep.q)
  /\ pc' = "await_rest"
  /\ UNCHANGED <<given, client, account, tokens, now, cli, op, stage, q, account_number,
                 device_id, result, out, tokBefore, issued, earlyExchange, failedInCall,
                 lastFailed, log>>

\* The gas readings of a response: the consumption in thousandths of a unit and
\* the start of the interval.
GasResults ==
  {[consumption |-> c, interval_start |-> Timestamp(t, "Z")] :
     c \in {0, 9999, 10000, 25000}, t \in {0, 30}}

\* The "results" a REST request can be answered with.  A unit rate is a JSON
\* object, here the set of its members.
RestData(name) ==
  CASE name = "electricity-tariffs" ->
         {<<>>, <<{<<"value_inc_vat", 9>>}>>, <<{}>>,
          <<{<<"value_inc_vat", 30>>}, {<<"value_inc_vat", 9>>}>>}
    [] name = "gas-consumption" -> UNION {[1..n -> GasResults] : n \in 0..MaxEvents}
    [] OTHER -> {<<>>, <<"x">>}

RestResponses(name) == {r \in Responses(RestData(name)) : ~r.has_errors}

\* rate.get("value_inc_vat", 0)
ValueIncVat(rate) ==
  IF \E m \in rate : m[1] = "value_inc_vat"
  THEN (CHOOSE m \in rate : m[1] = "value_inc_vat")[2]
  ELSE 0

\* The loop of get_tariff over the first four unit rates: a value below 15 is
\* the off-peak rate, any other the peak rate.
RECURSIVE RatesFrom(_, _, _)
RatesFrom(results, i, t) ==
  IF i > Len(results) \/ i > 4 THEN t
  ELSE LET val == ValueIncVat(results[i])
           key == IF val < 15 THEN "off_peak" ELSE "peak"
           rates == {m \in t.rates : m[1] # key} \cup {<<key, val>>}
       IN RatesFrom(results, i + 1,
            IF val < 15 THEN [t EXCEPT !.rates = rates, !.off_peak_rate = val]
            ELSE [t EXCEPT !.rates = rates, !.peak_rate = val])

\* The Tariff get_tariff returns for the first agreement and the unit rates.
Tariff(agreements, results) ==
  RatesFrom(results, 1,
    [product_code |-> agreements[1], rates |-> {}, off_peak_rate |-> NoneT,
     peak_rate |-> NoneT, off_peak_start |-> "23:30", off_peak_end |-> "05:30"])

\* 11.1868, in ten-thousandths.
M3_TO_KWH == 111868

\* The unit test with <= in place of <.
GasConsumptionInclusive(r) ==
  [start |-> ReadTimestamp(r.interval_start),
   kwh |-> IF r.consumption <= 10 * 1000 THEN r.consumption * M3_TO_KWH
           ELSE r.consumption * 10000,
   m3 |-> IF r.consumption <= 10 * 1000 THEN r.consumption ELSE NoneT]

\* The GasConsumption of one reading: below 10 the consumption is cubic metres
\* and is converted, else it is kWh and m3 is None.  kwh is in units of 10^-7.
GasConsumption(r) ==
  [start |-> ReadTimestamp(r.interval_start),
   kwh |-> IF r.consumption < 10 * 1000 THEN r.consumption * M3_TO_KWH
           ELSE r.consumption * 10000,
   m3 |-> IF r.consumption < 10 * 1000 THEN r.consumption ELSE NoneT]

\* What a method makes of the results of its REST request (an empty list after
\* a suppressed failure) and of the data of its query.
RestResult(name, data, results) ==
  CASE name = "electricity-tariffs" -> <<Tariff(data, results)>>
    [] name = "gas-consumption" -> [i \in DOMAIN results |-> GasConsumption(results[i])]
    [] OTHER -> <<"x">>

\* The answer to the REST GET arrives.
RecvRest ==
  /\ pc = "await_rest"
  /\ \E r \in inflight, resp \in RestResponses(CurStep.q) :
       /\ r.kind = "rest"
       /\ inflight' = inflight \ {r}
       /\ log' = Append(log, [name |-> r.name, resp |-> resp])
       /\ LET e == TransportError(resp) IN
          /\ out' = Outcome("rest", 1, resp, e, "", <<>>)
          /\ IF e # None
             THEN /\ failedInCall' = TRUE
                  /\ lastFailed' = r.name
                  /\ IF CurStep.suppress
                     THEN /\ stage' = stage + 1 /\ pc' = "run"
                          /\ ret' = RestResult(r.name, ret, <<>>)
                          /\ UNCHANGED <<exc, excMsg>>
                     ELSE /\ Raise(e, "") /\ UNCHANGED stage
             ELSE /\ stage' = stage + 1 /\ pc' = "run"
                  /\ ret' = RestResult(r.name, ret, resp.data)
                  /\ UNCHANGED <<exc, excMsg, failedInCall, lastFailed>>
  /\ UNCHANGED <<given, client, account, tokens, now, cli, op, q, account_number, device_id,
                 tokBefore, issued, earlyExchange, sent>>

\* The method has no step left: it returns.
Return ==
  /\ pc = "run" /\ ~InMethod
  /\ pc' = "returned"
  /\ UNCHANGED <<given, client, account, tokens, now, cli, op, stage, q, account_number,
                 device_id, inflight, result, ghost>>

\* ------------------------------------------------- the client as a library
\* The clients a program can construct.
Credentials ==
  {[email |-> "user@example.com", password |-> "secret", api_key |-> "sk_live_1"],
   [email |-> "user@example.com", password |-> None, api_key |-> ""],
   [email |-> None, password |-> None, api_key |-> None]}

\* Account number and meter identifiers: all given, none, or all but the meter's
\* serial number.
Identifiers ==
  {[account |-> "A-0", mpan |-> "1234", meter_serial |-> "M1"],
   [account |-> "A-0", mpan |-> "1234", meter_serial |-> ""],
   [account |-> None, mpan |-> None, meter_serial |-> None]}

Clients ==
  {OctopusClient(c.email, c.password, c.api_key, i.account, r, i.mpan, i.meter_serial,
                 None, None) :
     c \in Credentials, i \in Identifiers, r \in {"japan", "uk"}}

NoEnv == [OCTOPUS_API_KEY |-> None, OCTOPUS_ACCOUNT |-> None,
          OCTOPUS_MPAN |-> None, OCTOPUS_METER_SERIAL |-> None]

\* The fields of a constructed client.
IsClient(c) ==
  /\ region = c.region /\ email = c.email /\ password = c.password
  /\ api_key = c.api_key /\ account = c.account /\ mpan = c.mpan
  /\ meter_serial = c.meter_serial /\ gas_mprn = c.gas_mprn
  /\ gas_meter_serial = c.gas_meter_serial /\ _token = c._token
  /\ _refresh_token = c._refresh_token /\ _token_expires = c._token_expires
  /\ _graphql_url = c._graphql_url

\* No method has run yet.
InitRun ==
  /\ stage = 1 /\ q = NoQuery
  /\ account_number = None /\ device_id = None
  /\ inflight = {}
  /\ exc = None /\ excMsg = "" /\ ret = <<>>
  /\ out = NoOut /\ issued = {} /\ earlyExchange = FALSE
  /\ failedInCall = FALSE /\ lastFailed = "" /\ sent = <<>> /\ log = <<>>

InitCall ==
  /\ now = 0 /\ op = ""
  /\ InitRun
  /\ args = <<>> /\ utcoffset = 0

Init ==
  /\ \E c \in Clients : IsClient(c)
  /\ tokBefore = tokens
  /\ env = NoEnv /\ cmd = "api" /\ sec = 0 /\ opi = 0 /\ iter = 0
  /\ exitCode = 0 /\ fetched = {}
  /\ InitCall
  /\ pc = "idle"

Methods == AccountMethods

ClientStep ==
  \/ EnsureAccount \/ CallGraphql
  \/ GetTokenCached \/ GetTokenExchange
  \/ RecvToken \/ RecvQuery \/ CallRest \/ RecvRest \/ Return

\* The device ids a caller passes to get_live_power.
DeviceIds == {"", "dev-0"}

Next ==
  \/ Tick
  \/ \E m \in Methods : Call(m)
  \/ \E d \in DeviceIds : CallLivePower(d)
  \/ SkipDiscovery
  \/ CheckMeterIds
  \/ GetTokenNoCredentials
  \/ ClientStep

Spec == Init /\ [][Next]_vars

\* A program that reads gas consumption: a UK client with an API key and any
\* gas meter identifiers.
GasClients ==
  {OctopusClient(None, None, "sk_live_1", "A-0", "uk", None, None, g, s) :
     g \in {None, "", "9876"}, s \in {None, "G1"}}

InitGas ==
  /\ \E c \in GasClients : IsClient(c)
  /\ tokBefore = tokens
  /\ env = NoEnv /\ cmd = "api" /\ sec = 0 /\ opi = 0 /\ iter = 0
  /\ exitCode = 0 /\ fetched = {}
  /\ InitCall
  /\ pc = "idle"

NextGas ==
  \/ Tick
  \/ Call("get_gas_consumption")
  \/ CheckGasIds
  \/ CallRest \/ RecvRest \/ Return

SpecGas == InitGas /\ [][NextGas]_vars

\* --------------------------------------------------------- the command line
\* get_client: the call OctopusClient(api_key, account, mpan, meter_serial) passes
\* four positional arguments, which bind to the first four parameters of
\* __init__; region and the meter identifiers take their defaults.
get_client(e) ==
  OctopusClient(e.OCTOPUS_API_KEY, e.OCTOPUS_ACCOUNT, e.OCTOPUS_MPAN,
                e.OCTOPUS_METER_SERIAL, "japan", None, None, None, None)

\* get_client's check of the environment: raise typer.Exit(1).
EnvironmentMissing(e) == ~Truthy(e.OCTOPUS_API_KEY) \/ ~Truthy(e.OCTOPUS_ACCOUNT)

\* A command is a sequence of sections, each a try block (or the whole body):
\* the client methods it awaits in order and the exceptions it catches.  A
\* method with cond set is called only if the previous one returned a value.
Section(methods, catch) == [ops |-> methods, catch |-> catch]
M(m) == [m |-> m, cond |-> FALSE]
IfPrev(m) == [m |-> m, cond |-> TRUE]

status ==
  <<Section(<<M("get_account")>>, "OctopusError"),
    Section(<<M("get_tariff")>>, "OctopusError"),
    Section(<<M("get_live_power")>>, "OctopusError"),
    Section(<<M("get_dispatch_status")>>, "OctopusError"),
    Section(<<M("get_saving_sessions")>>, "OctopusError")>>

build_dashboard ==
  <<Section(<<M("get_account")>>, "all"),
    Section(<<M("get_tariff")>>, "all"),
    Section(<<M("get_live_power")>>, "all"),
    Section(<<M("get_dispatch_status"), M("get_dispatches")>>, "all"),
    Section(<<M("get_saving_sessions")>>, "all"),
    Section(<<M("get_daily_usage"), M("get_consumption")>>, "all")>>

Sections(c) ==
  CASE c = "account" -> <<Section(<<M("get_account")>>, "none")>>
    [] c = "rate" -> <<Section(<<M("get_tariff")>>, "none")>>
    [] c = "dispatch" -> <<Section(<<M("get_dispatch_status"), M("get_dispatches")>>, "none")>>
    [] c = "power" -> <<Section(<<M("get_live_power"), IfPrev("get_tariff")>>, "none")>>
    [] c = "sessions" -> <<Section(<<M("get_saving_sessions")>>, "none")>>
    [] c = "usage" -> <<Section(<<M("get_daily_usage")>>, "Exception")>>
    [] c = "status" -> status
    [] c = "watch" -> <<Section(<<M("get_live_power"), M("get_tariff")>>, "KeyboardInterrupt")>>
    [] c = "tui" -> build_dashboard
    [] OTHER -> <<>>

Commands == {"account", "rate", "dispatch", "power", "sessions", "usage", "status",
             "watch", "tui"}
Loops == {"watch", "tui"}

\* Whether an except clause catches an exception of the client.
Catches(catch, e) ==
  CASE catch = "OctopusError" -> e \in OctopusErrors
    [] catch = "Exception" -> TRUE
    [] catch = "all" -> TRUE
    [] OTHER -> FALSE

Environments ==
  {[OCTOPUS_API_KEY |-> k, OCTOPUS_ACCOUNT |-> a, OCTOPUS_MPAN |-> m,
    OCTOPUS_METER_SERIAL |-> m] :
     k \in {None, "", "sk_live_1"}, a \in {None, "A-0"}, m \in {None, "1234"}}

\* No client object yet.
Unconstructed ==
  [region |-> "", email |-> None, password |-> None, api_key |-> None,
   account |-> None, mpan |-> None, meter_serial |-> None, gas_mprn |-> None,
   gas_meter_serial |-> None, _token |-> NoneT,
   _refresh_token |-> None, _token_expires |-> NoneT, _graphql_url |-> ""]

BecomesClient(c) ==
  /\ region' = c.region /\ email' = c.email /\ password' = c.password
  /\ api_key' = c.api_key /\ account' = c.account /\ mpan' = c.mpan
  /\ meter_serial' = c.meter_serial /\ gas_mprn' = c.gas_mprn
  /\ gas_meter_serial' = c.gas_meter_serial /\ _token' = c._token
  /\ _refresh_token' = c._refresh_token /\ _token_expires' = c._token_expires
  /\ _graphql_url' = c._graphql_url

\* The command calls get_client().
GetClient ==
  /\ pc = "start"
  /\ IF EnvironmentMissing(env)
     THEN /\ exitCode' = 1 /\ pc' = "exit"
          /\ UNCHANGED <<client, account, tokens, sec, opi>>
     ELSE /\ BecomesClient(get_client(env))
          /\ pc' = "cmd" /\ sec' = 1 /\ opi' = 1
          /\ UNCHANGED exitCode
  /\ UNCHANGED <<given, now, env, cmd, iter, fetched, op, stage, q, account_number,
                 device_id, inflight, result, ghost>>

InSection == sec <= Len(Sections(cmd))
CurSection == Sections(cmd)[sec]
InOps == opi <= Len(CurSection.ops)
CurOp == CurSection.ops[opi]

\* The command awaits the next client method of the section (or skips it).
BeginOp ==
  /\ pc = "cmd" /\ InSection /\ InOps
  /\ IF CurOp.cond /\ ret = <<>>
     THEN /\ opi' = opi + 1
          /\ UNCHANGED <<call, result, out, tokBefore, failedInCall, fetched, sent, log>>
     ELSE /\ Enter(CurOp.m, None)
          /\ fetched' = fetched \cup {sec}
          /\ UNCHANGED opi
  /\ UNCHANGED <<given, client, account, tokens, now, env, cmd, sec, iter, exitCode, inflight,
                 issued, earlyExchange, lastFailed>>

\* The awaited method returned: the section goes on.
OpReturned ==
  /\ cmd # "api" /\ pc = "returned"
  /\ opi' = opi + 1 /\ pc' = "cmd"
  /\ UNCHANGED <<given, client, account, tokens, now, env, cmd, sec, iter, exitCode, fetched,
                 op, stage, q, account_number, device_id, inflight, result, ghost>>

\* The section has no method left: the next section starts.
EndSection ==
  /\ pc = "cmd" /\ InSection /\ ~InOps
  /\ sec' = sec + 1 /\ opi' = 1
  /\ UNCHANGED <<given, client, account, tokens, now, env, cmd, iter, exitCode, fetched,
                 call, inflight, result, ghost>>

\* The section's except clause catches the exception: the next section starts.
Catch ==
  /\ cmd # "api" /\ pc = "raised"
  /\ Catches(CurSection.catch, exc)
  /\ sec' = sec + 1 /\ opi' = 1 /\ pc' = "cmd"
  /\ UNCHANGED <<given, client, account, tokens, now, env, cmd, iter, exitCode, fetched,
                 op, stage, q, account_number, device_id, inflight, result, ghost>>

\* No except clause catches the exception: it ends the command.
Propagate ==
  /\ cmd # "api" /\ pc = "raised"
  /\ ~Catches(CurSection.catch, exc)
  /\ pc' = "aborted" /\ exitCode' = 1
  /\ UNCHANGED <<given, client, account, tokens, now, env, cmd, sec, opi, iter, fetched,
                 op, stage, q, account_number, device_id, inflight, result, ghost>>

\* The body is through: a one-shot command ends, a loop sleeps.
EndCommand ==
  /\ pc = "cmd" /\ ~InSection
  /\ pc' = IF cmd \in Loops THEN "sleep" ELSE "exit"
  /\ UNCHANGED <<given, client, account, tokens, now, cli, op, stage, q, account_number,
                 device_id, inflight, result, ghost>>

\* asyncio.sleep returns: the loop runs its body again.
Wake ==
  /\ pc = "sleep" /\ iter < MaxIter
  /\ iter' = iter + 1 /\ sec' = 1 /\ opi' = 1 /\ pc' = "cmd"
  /\ fetched' = {}
  /\ UNCHANGED <<given, client, account, tokens, now, env, cmd, exitCode, op, stage, q,
                 account_number, device_id, inflight, result, ghost>>

\* Ctrl+C while a loop command waits for an answer or sleeps: the KeyboardInterrupt
\* ends the command, which prints that it has stopped.
KeyboardInterrupt ==
  /\ cmd \in Loops
  /\ pc \in {"await_token", "await_query", "await_rest", "sleep"}
  /\ pc' = "stopped" /\ inflight' = {}
  /\ UNCHANGED <<given, client, account, tokens, now, cli, op, stage, q, account_number,
                 device_id, result, ghost>>

InitCli ==
  /\ IsClient(Unconstructed)
  /\ tokBefore = tokens
  /\ env \in Environments /\ cmd \in Commands /\ sec = 0 /\ opi = 0 /\ iter = 1
  /\ exitCode = 0 /\ fetched = {}
  /\ InitCall
  /\ pc = "start"

\* A client built by get_client always has credentials for its flow and runs no
\* UK consumption request, so those two steps do not occur here.
NextCli ==
  \/ Tick
  \/ GetClient \/ BeginOp \/ OpReturned \/ EndSection \/ Catch \/ Propagate
  \/ EndCommand \/ Wake \/ KeyboardInterrupt
  \/ ClientStep

SpecCli == InitCli /\ [][NextCli]_vars

\* ------------------------------------------------- the parsing of responses
\* sorted(items, key=lambda x: x.start): a stable insertion by start.
RECURSIVE InsertByStart(_, _)
InsertByStart(sorted, x) ==
  IF sorted = <<>> THEN <<x>>
  ELSE IF Instant(x.start) < Instant(Head(sorted).start)
       THEN <<x>> \o sorted
       ELSE <<Head(sorted)>> \o InsertByStart(Tail(sorted), x)

RECURSIVE SortedByStart(_)
SortedByStart(items) ==
  IF items = <<>> THEN <<>>
  ELSE InsertByStart(SortedByStart(SubSeq(items, 1, Len(items) - 1)), items[Len(items)])

\* A method is past its query and works on the data: the state in which its
\* parsing runs.
Parsing(m) ==
  /\ IsClient(OctopusClient("user@example.com", "secret", "sk_live_1", "A-0", "uk",
                            "1234", "M1", None, None))
  /\ tokBefore = tokens
  /\ env = NoEnv /\ cmd = "api" /\ sec = 0 /\ opi = 0 /\ iter = 0
  /\ exitCode = 0 /\ fetched = {}
  /\ InitRun
  /\ op = m /\ pc = "parse"

\* The method ends with the outcome of its parsing: it raises or returns.
Finish(outcome) ==
  /\ pc = "parse"
  /\ IF outcome.exc # None
     THEN Raise(outcome.exc, "")
     ELSE /\ ret' = outcome.value /\ pc' = "returned" /\ UNCHANGED <<exc, excMsg>>
  /\ UNCHANGED <<given, client, account, tokens, now, cli, op, stage, q, account_number,
                 device_id, inflight, ghost>>

\* ----- get_saving_sessions
\* The loop over the events: a session is kept when the wall-clock fields of its
\* end, with the offset dropped, are later than the local clock's.  ValueError
\* and KeyError skip the event; any other exception leaves the method.
RECURSIVE SessionsFrom(_, _, _)
SessionsFrom(events, i, sessions) ==
  IF i > Len(events) THEN [exc |-> None, value |-> SortedByStart(sessions)]
  ELSE LET e == events[i]
           start == ReadTimestamp(e.startAt)
           end == ReadTimestamp(e.endAt)
           raised == IF start.exc # None THEN start.exc ELSE end.exc
       IN IF raised \in {"ValueError", "KeyError"} THEN SessionsFrom(events, i + 1, sessions)
          ELSE IF raised # None THEN [exc |-> raised, value |-> <<>>]
          ELSE IF end.wall > now
               THEN SessionsFrom(events, i + 1,
                      Append(sessions, [code |-> e.code, start |-> start, end |-> end]))
               ELSE SessionsFrom(events, i + 1, sessions)

SavingSessions(events) == SessionsFrom(events, 1, <<>>)

\* The events a server can return: up to MaxEvents of them, each with its code
\* and two timestamps of one UTC offset, or with a start that cannot be read.
EventTimes == {0, 360, 720}
SavingSessionEvents ==
  {[startAt |-> Timestamp(a, z), endAt |-> Timestamp(b, z)] :
     a \in EventTimes, b \in EventTimes, z \in {"Z", "+09:00"}}
  \cup {[startAt |-> Timestamp(0, z), endAt |-> Timestamp(720, "Z")] :
          z \in {"absent", "invalid"}}

Coded(events) == [i \in DOMAIN events |-> [code |-> i] @@ events[i]]

InitSessions ==
  /\ Parsing("get_saving_sessions")
  /\ now \in {180, 540, 900}
  /\ utcoffset \in {0, 540}
  /\ \E n \in 0..MaxEvents : \E events \in [1..n -> SavingSessionEvents] :
       args = Coded(events)

ParseSavingSessions == op = "get_saving_sessions" /\ Finish(SavingSessions(args))

NextSessions == ParseSavingSessions

SpecSessions == InitSessions /\ [][NextSessions]_vars

\* ----- get_dispatches and get_dispatch_status
\* The loop of get_dispatches: ValueError and KeyError skip the entry.
RECURSIVE DispatchesFrom(_, _, _)
DispatchesFrom(data, i, dispatches) ==
  IF i > Len(data) THEN [exc |-> None, value |-> SortedByStart(dispatches)]
  ELSE LET start == ReadTimestamp(data[i].start)
           end == ReadTimestamp(data[i].end)
           raised == IF start.exc # None THEN start.exc ELSE end.exc
       IN IF raised \in {"ValueError", "KeyError"} THEN DispatchesFrom(data, i + 1, dispatches)
          ELSE IF raised # None THEN [exc |-> raised, value |-> <<>>]
          ELSE DispatchesFrom(data, i + 1,
                 Append(dispatches, [start |-> start, end |-> end, source |-> "smart-charge"]))

PlannedDispatches(data) == DispatchesFrom(data, 1, <<>>)

\* now.astimezone(d.start.tzinfo): the instant of the naive local time.
now_tz == now - utcoffset

\* The test with < in place of the first <=.
IsCurrentExclusive(d) == Instant(d.start) < now_tz /\ now_tz <= Instant(d.end)

\* d.start <= now_tz <= d.end
IsCurrent(d) == Instant(d.start) <= now_tz /\ now_tz <= Instant(d.end)

\* The loop of get_dispatch_status; a dispatch or None is a list of one or none.
RECURSIVE StatusFrom(_, _, _, _)
StatusFrom(dispatches, i, current, next_dispatch) ==
  IF i > Len(dispatches)
  THEN [is_dispatching |-> current # <<>>, current_dispatch |-> current,
        next_dispatch |-> next_dispatch]
  ELSE LET d == dispatches[i] IN
       IF IsCurrent(d) THEN StatusFrom(dispatches, i + 1, <<d>>, next_dispatch)
       ELSE IF Instant(d.start) > now_tz /\ next_dispatch = <<>>
            THEN StatusFrom(dispatches, i + 1, current, <<d>>)
            ELSE StatusFrom(dispatches, i + 1, current, next_dispatch)

DispatchStatus(data) ==
  LET dispatches == PlannedDispatches(data) IN
  IF dispatches.exc # None THEN dispatches
  ELSE [exc |-> None, value |-> <<StatusFrom(dispatches.value, 1, <<>>, <<>>)>>]

\* The plannedDispatches a server can return.
PlannedDispatchData ==
  {[start |-> Timestamp(a, z), end |-> Timestamp(b, z)] :
     a \in EventTimes, b \in EventTimes, z \in {"Z", "+09:00"}}
  \cup {[start |-> Timestamp(0, "Z"), end |-> Timestamp(0, z)] : z \in {"absent", "invalid"}}

InitDispatch ==
  /\ Parsing("get_dispatch_status")
  /\ now \in {180, 540, 900}
  /\ utcoffset \in {0, 540}
  /\ \E n \in 0..MaxEvents : args \in [1..n -> PlannedDispatchData]

ParseDispatchStatus == op = "get_dispatch_status" /\ Finish(DispatchStatus(args))

NextDispatch == ParseDispatchStatus

SpecDispatch == InitDispatch /\ [][NextDispatch]_vars

\* ----- get_current_rate
\* A naive datetime is its minutes since a midnight and its seconds.
MinutesPerDay == 1440

\* strftime("%H:%M"): the hour and the minute, which compare as the zero-padded
\* strings do.
HourMinute(d) == <<(d.minute % MinutesPerDay) \div 60, d.minute % 60>>
TimeBefore(a, b) == a[1] < b[1] \/ (a[1] = b[1] /\ a[2] < b[2])

\* d.replace(hour=h, minute=m, second=0)
ReplaceTime(d, h, m) ==
  [minute |-> (d.minute \div MinutesPerDay) * MinutesPerDay + h * 60 + m, second |-> 0]

\* d + timedelta(days=1)
NextDay(d) == [minute |-> d.minute + MinutesPerDay, second |-> d.second]

\* a >= b on naive datetimes
NotBefore(a, b) == a.minute > b.minute \/ (a.minute = b.minute /\ a.second >= b.second)

\* x or default, for an Optional[float]: None and 0 are both false.
OrDefault(x, default) == IF x = NoneT \/ x = 0 THEN default ELSE x

CurrentRate(tariff, second) ==
  LET dt == [minute |-> now, second |-> second]
      current_time == HourMinute(dt)
      late == ~TimeBefore(current_time, <<23, 30>>)
      is_off_peak == late \/ TimeBefore(current_time, <<5, 30>>)
      peak_end == ReplaceTime(dt, 23, 30)
  IN IF is_off_peak
     THEN [rate |-> OrDefault(tariff.off_peak_rate, 7), is_off_peak |-> TRUE,
           period_end |-> IF late THEN ReplaceTime(NextDay(dt), 5, 30)
                          ELSE ReplaceTime(dt, 5, 30),
           next_rate |-> OrDefault(tariff.peak_rate, 30)]
     ELSE [rate |-> OrDefault(tariff.peak_rate, 30), is_off_peak |-> FALSE,
           period_end |-> IF NotBefore(dt, peak_end) THEN NextDay(peak_end) ELSE peak_end,
           next_rate |-> OrDefault(tariff.off_peak_rate, 7)]

\* The tariffs get_tariff can return, as far as get_current_rate reads them.
Tariffs ==
  {[off_peak_rate |-> o, peak_rate |-> k] : o \in {NoneT, 0, 9}, k \in {NoneT, 25}}

InitRate ==
  /\ Parsing("get_current_rate")
  /\ now \in 0..(MinutesPerDay - 1)
  /\ utcoffset = 0
  /\ args \in [tariff : Tariffs, second : {0, 59}]

GetCurrentRate ==
  /\ op = "get_current_rate"
  /\ Finish([exc |-> None, value |-> <<CurrentRate(args.tariff, args.second)>>])

NextRate == GetCurrentRate

SpecRate == InitRate /\ [][NextRate]_vars

\* ----- _get_consumption_japan
\* A JSON member that is read as a number: a number, a string that is no
\* number ("invalid"), null, or absent.
Value(n, kind) == [n |-> n, kind |-> kind]

\* float(r[key]): the number, or the exception raised.
ReadFloat(v) ==
  CASE v.kind = "absent" -> [exc |-> "KeyError", value |-> 0]
    [] v.kind = "null" -> [exc |-> "TypeError", value |-> 0]
    [] v.kind = "number" -> [exc |-> None, value |-> v.n]
    [] OTHER -> [exc |-> "ValueError", value |-> 0]

\* float(r.get(key) or 0)
ReadFloatOrZero(v) ==
  IF v.kind \in {"absent", "null"} \/ (v.kind = "number" /\ v.n = 0)
  THEN [exc |-> None, value |-> 0]
  ELSE ReadFloat(v)

\* start_at + timedelta(minutes=30)
HalfHourAfter(d) == [d EXCEPT !.wall = @ + 30]

Consumption(start_at, kwh, cost) ==
  [start |-> start_at, end |-> HalfHourAfter(start_at), kwh |-> kwh,
   cost_estimate |-> cost]

\* The entries in the order the three nested loops visit them.
RECURSIVE Chain(_)
Chain(lists) == IF lists = <<>> THEN <<>> ELSE Head(lists) \o Chain(Tail(lists))

HalfHourlyReadings(properties) ==
  Chain([p \in DOMAIN properties |-> Chain(properties[p])])

\* The loop body: ValueError, KeyError and TypeError skip the entry; any other
\* exception leaves the method.
RECURSIVE ReadingsFrom(_, _, _)
ReadingsFrom(entries, i, readings) ==
  IF i > Len(entries) THEN [exc |-> None, value |-> SortedByStart(readings)]
  ELSE LET r == entries[i]
           start_at == ReadTimestamp(r.startAt)
           kwh == ReadFloat(r.value)
           cost == ReadFloatOrZero(r.costEstimate)
           raised == IF start_at.exc # None THEN start_at.exc
                     ELSE IF kwh.exc # None THEN kwh.exc ELSE cost.exc
       IN IF raised \in {"ValueError", "KeyError", "TypeError"}
          THEN ReadingsFrom(entries, i + 1, readings)
          ELSE IF raised # None THEN [exc |-> raised, value |-> <<>>]
          ELSE ReadingsFrom(entries, i + 1,
                 Append(readings, Consumption(start_at, kwh.value, cost.value)))

ConsumptionJapan(properties) == ReadingsFrom(HalfHourlyReadings(properties), 1, <<>>)

\* fromDatetime and toDatetime of the query: `not end` and `not start` hold for
\* None only, a datetime is always true.
Window(periods, start, end) ==
  LET to == IF end = NoneT THEN now ELSE end
      from == IF start = NoneT THEN to - 30 * periods ELSE start
  IN {<<"fromDatetime", from>>, <<"toDatetime", to>>}

\* The entries a server can return: a readable start with a readable value and
\* any cost estimate, or one of the two members unreadable.
ReadingTimes == {0, 30, 540}
ReadingEntries ==
  {[startAt |-> Timestamp(t, z), value |-> Value(250, "number"),
    costEstimate |-> Value(0, "absent")] : t \in ReadingTimes, z \in {"Z", "+09:00"}}
  \cup {[startAt |-> Timestamp(0, "Z"), value |-> Value(125, "number"),
          costEstimate |-> c] : c \in {Value(0, "number"), Value(4, "number"),
                                       Value(0, "invalid")}}
  \cup {[startAt |-> Timestamp(0, z), value |-> Value(250, "number"),
          costEstimate |-> Value(0, "absent")] : z \in {"absent", "null", "invalid"}}
  \cup {[startAt |-> Timestamp(30, "Z"), value |-> Value(0, k),
          costEstimate |-> Value(0, "absent")] : k \in {"absent", "null", "invalid"}}

\* Two properties, the first with two supply points, the second with one,
\* sharing up to MaxEvents entries.
Properties ==
  UNION {{<< <<SubSeq(e, 1, i), SubSeq(e, i + 1, j)>>, <<SubSeq(e, j + 1, n)>> >> :
            e \in [1..n -> ReadingEntries]} :
         <<n, i, j>> \in {t \in (0..MaxEvents) \X (0..MaxEvents) \X (0..MaxEvents) :
                            t[2] <= t[3] /\ t[3] <= t[1]}}

InitReadings ==
  /\ IsClient(OctopusClient("user@example.com", "secret", None, "A-0", "japan",
                            None, None, None, None))
  /\ tokBefore = tokens
  /\ env = NoEnv /\ cmd = "api" /\ sec = 0 /\ opi = 0 /\ iter = 0
  /\ exitCode = 0 /\ fetched = {}
  /\ InitRun
  /\ op = "get_consumption" /\ pc = "window"
  /\ now = 1500
  /\ utcoffset = 540
  /\ args \in [periods : {1, 48}, start : {NoneT, 0}, end : {NoneT, 60},
               properties : Properties]

\* The query is built with its window.
QueryReadings ==
  /\ op = "get_consumption" /\ pc = "window"
  /\ q' = [name |-> "halfHourlyReadings",
           vars |-> Window(args.periods, args.start, args.end)]
  /\ pc' = "parse"
  /\ UNCHANGED <<given, client, account, tokens, now, cli, op, stage, account_number,
                 device_id, inflight, result, ghost>>

ParseReadings == op = "get_consumption" /\ Finish(ConsumptionJapan(args.properties))

NextReadings == QueryReadings \/ ParseReadings

SpecReadings == InitReadings /\ [][NextReadings]_vars

\* ----- get_daily_usage
\* The lengths of the months of 2024, the year minute 0 of the clock starts.
MonthLengths == <<31, 29, 31, 30, 31, 30, 31, 31, 30, 31, 30, 31>>

\* The month and the day of the month of the n-th day after the last day of
\* the month before month m.
RECURSIVE MonthDay(_, _)
MonthDay(m, n) ==
  IF n < MonthLengths[m] THEN <<m, n + 1>> ELSE MonthDay(m + 1, n - MonthLengths[m])

\* d.strftime("%Y-%m-%d"): year, month and day of the wall-clock fields of d,
\* whatever its UTC offset.
StrfDate(d) == <<2024>> \o MonthDay(1, d.wall \div MinutesPerDay)

\* daily.get(day, 0)
GetOrZero(daily, day) == IF day \in DOMAIN daily THEN daily[day] ELSE 0

\* The loop body with an assignment in place of the addition.
AddReadingOverwriting(daily, c) ==
  LET day == StrfDate(c.start)
  IN [k \in DOMAIN daily \cup {day} |-> IF k = day THEN c.kwh ELSE daily[k]]

\* The loop body: daily[day] = daily.get(day, 0) + c.kwh
AddReading(daily, c) ==
  LET day == StrfDate(c.start)
  IN [k \in DOMAIN daily \cup {day} |->
        IF k = day THEN GetOrZero(daily, day) + c.kwh ELSE daily[k]]

RECURSIVE DailyFrom(_, _, _)
DailyFrom(consumption, i, daily) ==
  IF i > Len(consumption) THEN daily
  ELSE DailyFrom(consumption, i + 1, AddReading(daily, consumption[i]))

DailyUsage(consumption) == DailyFrom(consumption, 1, <<>>)

\* The readings get_consumption can return: starts just before and at a
\* midnight and a month later, of either UTC offset, of two amounts.
UsageTimes == {1430, 1440, 31 * 1440 + 10}
UsageReadings ==
  {Consumption(ReadTimestamp(Timestamp(t, z)), kwh, 0) :
     t \in UsageTimes, z \in {"Z", "+09:00"}, kwh \in {125, 250}}

InitUsage ==
  /\ IsClient(OctopusClient("user@example.com", "secret", "sk_live_1", "A-0", "uk",
                            "1234", "M1", None, None))
  /\ tokBefore = tokens
  /\ env = NoEnv /\ cmd = "api" /\ sec = 0 /\ opi = 0 /\ iter = 0
  /\ exitCode = 0 /\ fetched = {}
  /\ InitRun
  /\ op = "get_daily_usage" /\ pc = "request"
  /\ now = 0
  /\ utcoffset = 0
  /\ \E n \in 0..MaxEvents :
       args \in [days : {1, 7}, consumption : [1..n -> UsageReadings]]

\* get_consumption is called with periods = days * 48.
RequestUsage ==
  /\ op = "get_daily_usage" /\ pc = "request"
  /\ q' = [name |-> "get_consumption", vars |-> {<<"periods", args.days * 48>>}]
  /\ pc' = "parse"
  /\ UNCHANGED <<given, client, account, tokens, now, cli, op, stage, account_number,
                 device_id, inflight, result, ghost>>

\* The readings are grouped and the dict is returned.
GroupUsage ==
  /\ op = "get_daily_usage"
  /\ Finish([exc |-> None, value |-> DailyUsage(args.consumption)])

NextUsage == RequestUsage \/ GroupUsage

SpecUsage == InitUsage /\ [][NextUsage]_vars

\* ------------------------------------------------------------------- claims
Queries == {r \in inflight : r.kind = "query"}
Exchanges == {r \in inflight : r.kind = "exchange"}

\* C1: an expired token is never reused.  The token in the Authorization header
\* of a query was issued by the server in a successful exchange less than 55
\* minutes before _get_token returned it (a request's `at` is that moment, a
\* token is its time of issue); a token returned from the cache had not reached
\* _token_expires, and an exchange is sent only when the client holds no token
\* or the token's expiry has been reached.
ExpiredTokenNeverReused ==
  /\ \A r \in Queries :
       /\ r.auth \in issued
       /\ r.at - r.auth < 55
       /\ r.src = "cached" => (_token_expires # NoneT /\ r.at < _token_expires)
  /\ \A r \in Exchanges :
       _token = NoneT \/ _token_expires = NoneT \/ r.at >= _token_expires

\* C1 happens: a client that holds a token whose 55 minutes are over is
\* exchanging credentials for a new one.
ExpiredTokenReplaced ==
  \E r \in Exchanges : _token # NoneT /\ r.at >= _token + 55

\* C2: the token is cached for 55 minutes.  No exchange is ever sent while a
\* token from a successful exchange has not reached _token_expires, every query
\* carries the token of the last successful exchange, and a _graphql call made
\* inside the window sends one request, the query itself.
TokenCachedUntilExpiry ==
  /\ ~earlyExchange
  /\ \A r \in Queries :
       /\ r.auth = _token
       /\ (_token_expires # NoneT /\ r.at < _token_expires /\ r.at > r.auth)
            => (r.src = "cached" /\ out.nreq = 0)

\* C2 happens: a query goes out with a cached token obtained earlier.
CachedTokenUsedLater ==
  \E r \in Queries : r.src = "cached" /\ r.at > r.auth /\ r.at < _token_expires

\* C3: the region alone chooses the flow.  Japan sends email and password, or
\* the refresh token, and never the API key; UK sends the API key and nothing
\* else; exchanges and queries go to the region's own GraphQL endpoint.
FlowChosenByRegion ==
  \A r \in inflight :
    /\ (r.kind \in {"exchange", "query"} /\ region = "japan")
         => r.url = "https://api.oejp-kraken.energy/v1/graphql/"
    /\ (r.kind \in {"exchange", "query"} /\ region = "uk")
         => r.url = "https://api.octopus.energy/v1/graphql/"
    /\ (r.kind = "exchange" /\ region = "japan")
         => /\ r.vars \in {{<<"email", email>>, <<"password", password>>},
                           {<<"refreshToken", _refresh_token>>}}
            /\ \A v \in r.vars : v[1] # "key" /\ (Truthy(api_key) => v[2] # api_key)
    /\ (r.kind = "exchange" /\ region = "uk")
         => r.vars = {<<"key", api_key>>}

\* C3 happens: a UK client that also holds an email and a password exchanges
\* its API key.
UkExchangeWithEmailConfigured ==
  \E r \in Exchanges : region = "uk" /\ Truthy(email) /\ Truthy(password)

\* C4 as stated: whenever the body of a response has "errors", _graphql raises
\* APIError with the first message and _get_token raises AuthenticationError
\* with the first message, the token fields untouched; without "errors"
\* _graphql returns the data member.
ErrorsAlwaysUnwrapped ==
  /\ (out.fn = "_graphql" /\ out.resp.has_errors)
       => (out.exc = "APIError" /\ out.msg = out.resp.errors[1] /\ out.data = <<>>)
  /\ (out.fn = "_get_token" /\ out.resp.has_errors)
       => (out.exc = "AuthenticationError" /\ out.msg = out.resp.errors[1]
           /\ tokens = tokBefore)
  /\ (out.fn = "_graphql" /\ out.resp.status # 0 /\ ~out.resp.has_errors)
       => (out.exc = None /\ out.data = out.resp.data)

\* C4, amended: the envelope is unwrapped when the HTTP status is a success.
\* Then a body with "errors" makes _graphql raise APIError and _get_token raise
\* AuthenticationError, each with the first message, and a body without makes
\* _graphql return the data member.  Under an error status raise_for_status
\* raises HTTPStatusError whatever the body holds.  A failed exchange leaves
\* the token fields as they were in every case.
ErrorsUnwrappedOnSuccessStatus ==
  /\ (out.fn = "_graphql" /\ out.resp.status = 200 /\ out.resp.has_errors)
       => (out.exc = "APIError" /\ out.msg = out.resp.errors[1] /\ out.data = <<>>)
  /\ (out.fn = "_get_token" /\ out.resp.status = 200 /\ out.resp.has_errors)
       => (out.exc = "AuthenticationError" /\ out.msg = out.resp.errors[1])
  /\ (out.fn = "_graphql" /\ out.resp.status = 200 /\ ~out.resp.has_errors)
       => (out.exc = None /\ out.data = out.resp.data)
  /\ (out.fn \in {"_graphql", "_get_token"} /\ out.resp.status >= 400)
       => (out.exc = "HTTPStatusError" /\ out.data = <<>>)
  /\ (out.fn = "_get_token" /\ out.exc # None) => tokens = tokBefore

\* C4 happens: a client holding an expired token gets an error envelope for its
\* exchange.
ExchangeRejectedWithEnvelope ==
  /\ out.fn = "_get_token" /\ out.resp.status = 200 /\ out.resp.has_errors
  /\ _token # NoneT /\ pc = "raised"

\* The credentials the claim C5 calls missing, for the refresh token held when
\* _get_token was entered.
CredentialsMissing ==
  \/ region = "japan" /\ ~Truthy(tokBefore[2]) /\ ~(Truthy(email) /\ Truthy(password))
  \/ region = "uk" /\ ~Truthy(api_key)

\* C5: missing credentials are rejected before any network traffic.  A client
\* with missing credentials never holds a token; once one of its methods has
\* called _graphql, the call has raised AuthenticationError, having sent no
\* request and changed no token field.
MissingCredentialsRejected ==
  CredentialsMissing =>
    /\ Queries = {} /\ Exchanges = {}
    /\ pc \notin {"await_token", "await_query"}
    /\ (q # NoQuery /\ pc # "get_token")
         => /\ pc = "raised" /\ exc = "AuthenticationError"
            /\ out.fn = "_get_token" /\ out.nreq = 0
            /\ tokens = tokBefore /\ inflight = {}

\* C5 happens: a Japan client with an email and no password has been refused.
EmailWithoutPasswordRefused ==
  /\ region = "japan" /\ Truthy(email) /\ ~Truthy(password) /\ CredentialsMissing
  /\ pc = "raised" /\ exc = "AuthenticationError" /\ out.nreq = 0

\* C6 as stated: every query of an account-scoped operation carries a non-null
\* account number, and once the client holds an account number it sends no
\* viewer query.
AccountNumberAlwaysSent ==
  \A r \in Queries :
    /\ r.name \in AccountQueries => \A v \in r.vars : v[1] = "account" => v[2] # None
    /\ r.name = "accountViewer" => ~Truthy(account)

\* C7 as stated: get_client exits with code 1 and builds no client when
\* OCTOPUS_API_KEY or OCTOPUS_ACCOUNT is unset or empty; otherwise the client
\* holds the four environment values in api_key, account, mpan and meter_serial
\* and uses the API-key flow.
ClientBuiltFromEnvironment ==
  (cmd # "api" /\ pc # "start") =>
    IF ~Truthy(env.OCTOPUS_API_KEY) \/ ~Truthy(env.OCTOPUS_ACCOUNT)
    THEN exitCode = 1 /\ pc = "exit" /\ region = ""
    ELSE /\ api_key = env.OCTOPUS_API_KEY
         /\ account = env.OCTOPUS_ACCOUNT
         /\ mpan = env.OCTOPUS_MPAN
         /\ meter_serial = env.OCTOPUS_METER_SERIAL
         /\ region = "uk"
         /\ \A r \in Exchanges : r.vars = {<<"key", env.OCTOPUS_API_KEY>>}

\* C8: requests are strictly sequential.  At most one HTTP request is out at any
\* moment of any command, and while one is out the command is waiting for its
\* answer.
RequestsStrictlySequential ==
  /\ Cardinality(inflight) <= 1
  /\ inflight # {} => pc \in {"await_token", "await_query", "await_rest"}

\* C8 happens: a request is out in the second round of the tui loop, after
\* earlier requests of the command were answered.
RequestOutInSecondRound ==
  cmd = "tui" /\ iter = 2 /\ Cardinality(inflight) = 1

\* C9 as stated: after a request has failed, no command sends that request
\* again (lastFailed is the last request of the command that failed).
NoRequestReissued ==
  \A r \in inflight : r.name # lastFailed

\* C9, amended: the client has no retry.  Inside one call of a client method,
\* once a request has failed no request is sent, and a call that raised has
\* nothing out.  (A command that goes on after a failure calls further methods,
\* and each of them sends the token exchange again while no token is cached.)
NoRequestAfterFailureInCall ==
  /\ failedInCall => (inflight = {} /\ pc \notin {"await_token", "await_query", "await_rest"})
  /\ pc = "raised" => inflight = {}

\* C9 happens: the unit-rate request of get_tariff failed, the failure was
\* suppressed and the method returned without another request.
SuppressedFailureEndsCall ==
  failedInCall /\ op = "get_tariff" /\ pc = "returned" /\ exc = None

\* C10 as stated: an API error envelope, an authentication error or an HTTP
\* error status in one section never aborts the status command, which ends with
\* all five sections fetched.
StatusFetchesEverySection ==
  (cmd = "status" /\ region # "") =>
    /\ pc = "exit" => fetched = 1..5
    /\ pc = "aborted" => exc \notin {"APIError", "AuthenticationError", "HTTPStatusError"}

\* C11: get_consumption dispatches by region.  Under region japan every request
\* of the call goes to the Japan GraphQL endpoint, none is a REST request, every
\* query carries a token the server issued, and a call that returned ended with
\* the answer to the halfHourlyReadings query.  Under region uk no request is a
\* GraphQL request; without mpan or meter_serial the call sends nothing and
\* raises ConfigurationError; with both, a call that ended has sent exactly one
\* request, the REST consumption request.
ConsumptionDispatchedByRegion ==
  op = "get_consumption" =>
    /\ region = "japan" =>
         /\ \A r \in inflight :
              /\ r.kind \in {"exchange", "query"}
              /\ r.url = "https://api.oejp-kraken.energy/v1/graphql/"
              /\ r.kind = "query" => r.auth \in issued
         /\ \A i \in DOMAIN sent :
              sent[i] \in {"obtainKrakenToken", "accountViewer", "halfHourlyReadings"}
         /\ pc = "returned" =>
              /\ sent[Len(sent)] = "halfHourlyReadings"
              /\ log[Len(log)].name = "halfHourlyReadings"
              /\ log[Len(log)].resp.status = 200
    /\ region = "uk" =>
         /\ \A r \in inflight :
              r.kind = "rest" /\ r.url = "https://api.octopus.energy/v1"
         /\ IF ~Truthy(mpan) \/ ~Truthy(meter_serial)
            THEN /\ sent = <<>> /\ inflight = {}
                 /\ pc # "run" => (pc = "raised" /\ exc = "ConfigurationError")
            ELSE /\ sent \in {<<>>, <<"consumption">>}
                 /\ pc \in {"returned", "raised"} => sent = <<"consumption">>

\* C11 happens: a UK client that holds an mpan and no meter serial number has
\* called get_consumption and been refused.
ConsumptionRefusedWithoutSerial ==
  /\ op = "get_consumption" /\ region = "uk" /\ Truthy(mpan) /\ ~Truthy(meter_serial)
  /\ pc = "raised" /\ exc = "ConfigurationError"

\* C12 as stated: get_saving_sessions returns the events whose end instant is
\* later than the current instant, whatever the UTC offsets of the timestamps
\* and of the local clock, sorted by ascending start.
UpcomingSessionsReturned ==
  (op = "get_saving_sessions" /\ pc = "returned") =>
    /\ \A i \in DOMAIN args :
         (ReadTimestamp(args[i].startAt).exc = None /\ ReadTimestamp(args[i].endAt).exc = None)
           => ((\E j \in DOMAIN ret : ret[j].code = i)
                 <=> Instant(ReadTimestamp(args[i].endAt)) > now - utcoffset)
    /\ \A j \in DOMAIN ret, k \in DOMAIN ret :
         j < k => Instant(ret[j].start) <= Instant(ret[k].start)

\* The planned dispatches of a response: its entries with two readable timestamps.
Planned ==
  {[start |-> ReadTimestamp(args[i].start), end |-> ReadTimestamp(args[i].end),
    source |-> "smart-charge"] :
     i \in {k \in DOMAIN args : /\ ReadTimestamp(args[k].start).exc = None
                                /\ ReadTimestamp(args[k].end).exc = None}}

\* C13: get_dispatch_status reports the state of the planned dispatches at the
\* current instant.  is_dispatching holds exactly when current_dispatch is set,
\* which is exactly when some planned dispatch has start <= now <= end, and the
\* current dispatch is such a one; next_dispatch, when set, is a planned
\* dispatch starting after now and no planned dispatch starts after now and
\* before it; it is unset only when none starts after now; the two are never
\* the same dispatch.
DispatchStatusReflectsPlan ==
  (op = "get_dispatch_status" /\ pc = "returned") =>
    LET st == ret[1]
        current == st.current_dispatch
        next == st.next_dispatch
        t == now - utcoffset
    IN /\ st.is_dispatching <=> current # <<>>
       /\ current # <<>> <=> \E d \in Planned : Instant(d.start) <= t /\ t <= Instant(d.end)
       /\ current # <<>> =>
            /\ current[1] \in Planned
            /\ Instant(current[1].start) <= t /\ t <= Instant(current[1].end)
       /\ next # <<>> =>
            /\ next[1] \in Planned /\ Instant(next[1].start) > t
            /\ \A d \in Planned :
                 Instant(d.start) > t => Instant(next[1].start) <= Instant(d.start)
       /\ next = <<>> => \A d \in Planned : Instant(d.start) <= t
       /\ (current # <<>> /\ next # <<>>) => current[1] # next[1]

\* C13 happens: one dispatch is running since this very instant, another comes
\* later, and the status names both.
DispatchRunningAndNextKnown ==
  /\ op = "get_dispatch_status" /\ pc = "returned"
  /\ ret[1].is_dispatching /\ ret[1].next_dispatch # <<>>
  /\ Instant(ret[1].current_dispatch[1].start) = now - utcoffset
  /\ Len(args) = 2

\* C14 as stated: is_off_peak holds exactly from 23:30 to 05:30; period_end is
\* the next boundary of the window, later than now by at most 6 hours when
\* off-peak and 18 hours when peak; rate and next_rate are the tariff's rates for
\* the current and for the other period whenever the tariff has them set.
RateFollowsWindowAndTariff ==
  (op = "get_current_rate" /\ pc = "returned") =>
    LET r == ret[1]
        tod == now % 1440
        off == tod >= 23 * 60 + 30 \/ tod < 5 * 60 + 30
        ahead == (r.period_end.minute - now) * 60 + r.period_end.second - args.second
        mine == IF off THEN args.tariff.off_peak_rate ELSE args.tariff.peak_rate
        other == IF off THEN args.tariff.peak_rate ELSE args.tariff.off_peak_rate
    IN /\ r.is_off_peak <=> off
       /\ r.period_end.minute % 1440 = (IF off THEN 5 * 60 + 30 ELSE 23 * 60 + 30)
       /\ r.period_end.second = 0
       /\ ahead > 0
       /\ ahead <= (IF off THEN 6 ELSE 18) * 3600
       /\ mine # NoneT => r.rate = mine
       /\ other # NoneT => r.next_rate = other

\* The answers of the running call to its requests of one name.
Answers(name) == SelectSeq(log, LAMBDA a : a.name = name)

\* C15: get_tariff returns None exactly when the account has no active
\* electricity agreement, and a Tariff otherwise.  A call that has returned got
\* an answer to its GetTariff query; it returned None exactly when that answer
\* held no agreement, and then it sent no unit-rate request.  A unit-rate request
\* that fails, by a connection error or an HTTP error status, never raises: the
\* call returns a Tariff with empty rates and no off-peak and no peak rate.
TariffUnlessNoAgreement ==
  op = "get_tariff" =>
    /\ pc = "returned" =>
         /\ Len(Answers("GetTariff")) = 1
         /\ ret = <<>> <=> Answers("GetTariff")[1].resp.data = <<>>
         /\ ret = <<>> => Answers("electricity-tariffs") = <<>>
         /\ ret # <<>> =>
              /\ Len(ret) = 1 /\ Len(Answers("electricity-tariffs")) = 1
              /\ ret[1].product_code = Answers("GetTariff")[1].resp.data[1]
    /\ \A i \in DOMAIN log :
         (log[i].name = "electricity-tariffs" /\ log[i].resp.status # 200) =>
           /\ pc \in {"run", "returned"} /\ exc = None
           /\ ret = <<[product_code |-> Answers("GetTariff")[1].resp.data[1],
                       rates |-> {}, off_peak_rate |-> NoneT, peak_rate |-> NoneT,
                       off_peak_start |-> "23:30", off_peak_end |-> "05:30"]>>

\* C15 happens: the unit-rate request met a connection error and get_tariff
\* returned a Tariff all the same.
TariffDespiteConnectionError ==
  /\ op = "get_tariff" /\ pc = "returned" /\ ret # <<>>
  /\ log[Len(log)].name = "electricity-tariffs" /\ log[Len(log)].resp.status = 0

\* C16 as stated: get_live_power returns a LivePower built from the last
\* telemetry entry, or None.  With a device id passed it sends no discovery
\* query; without one, when discovery finds no device it returns None and sends
\* no telemetry query; it returns None when the telemetry is empty or its last
\* entry is malformed (no readAt, a readAt that is null or no timestamp, a demand
\* that is no number), and otherwise the LivePower of the last entry.
LivePowerOrNone ==
  op = "get_live_power" =>
    LET passed == args # <<>> /\ Truthy(args[1])
        discovered == Answers("DiscoverDevices")
        telemetry == Answers("GetTelemetry")
        returnsNone == pc \in {"run", "returned"} /\ exc = None /\ ret = <<>>
    IN /\ passed => \A i \in DOMAIN sent : sent[i] # "DiscoverDevices"
       /\ (discovered # <<>> /\ GraphqlError(discovered[1].resp) = None
             /\ \A i \in DOMAIN discovered[1].resp.data :
                  ~Truthy(discovered[1].resp.data[i]))
            => (pc = "returned" /\ ret = <<>>
                /\ \A i \in DOMAIN sent : sent[i] # "GetTelemetry")
       /\ (telemetry # <<>> /\ GraphqlError(telemetry[1].resp) = None) =>
            LET entries == telemetry[1].resp.data
                last == entries[Len(entries)]
            IN IF entries = <<>> THEN returnsNone
               ELSE IF last.readAt.suffix \in {"Z", "+09:00"}
                       /\ last.demand \in {"null", "456", "1200"}
               THEN /\ pc \in {"run", "returned"} /\ exc = None /\ Len(ret) = 1
                    /\ ret[1].read_at.wall = last.readAt.t
                    /\ ret[1].demand_watts =
                         (IF last.demand = "1200" THEN 1200
                          ELSE IF last.demand = "456" THEN 456 ELSE 0)
               ELSE returnsNone

\* C17 as stated: the watch command refreshes until Ctrl+C.  Every iteration
\* that reaches its sleep has fetched live power and then the tariff, and the
\* loop is never left by anything but a keyboard interrupt: the command neither
\* ends by itself nor is ended by an exception of a fetch.
WatchEndsOnlyOnInterrupt ==
  (cmd = "watch" /\ region # "") =>
    /\ pc = "sleep" => (op = "get_tariff" /\ fetched = {1})
    /\ pc \notin {"exit", "aborted"}

\* C18: get_gas_consumption normalises units per reading.  Without gas_mprn or
\* gas_meter_serial it raises ConfigurationError and sends nothing.  A call that
\* returned gives one entry per result of the answer, in its order; a reading
\* below 10 has m3 = consumption and kwh = consumption x 11.1868, a reading of
\* 10 or more has kwh = consumption and no m3, so m3 is unset exactly for the
\* readings of 10 or more.
GasUnitsNormalised ==
  op = "get_gas_consumption" =>
    /\ (~Truthy(gas_mprn) \/ ~Truthy(gas_meter_serial)) =>
         /\ sent = <<>> /\ inflight = {}
         /\ pc # "run" => (pc = "raised" /\ exc = "ConfigurationError")
    /\ pc = "returned" =>
         LET results == log[Len(log)].resp.data IN
         /\ sent = <<"gas-consumption">>
         /\ Len(ret) = Len(results)
         /\ \A i \in DOMAIN results :
              LET c == results[i].consumption IN
              /\ ret[i].start.wall = results[i].interval_start.t
              /\ c < 10000 => (ret[i].m3 = c /\ ret[i].kwh = c * 111868)
              /\ c >= 10000 => (ret[i].m3 = NoneT /\ ret[i].kwh = c * 10000)
              /\ ret[i].m3 = NoneT <=> c >= 10000

\* C18 happens: a reading of exactly 10 follows a reading just below 10 in one
\* answer.
GasReadingsOfBothUnits ==
  /\ op = "get_gas_consumption" /\ pc = "returned" /\ Len(ret) = 2
  /\ log[Len(log)].resp.data[1].consumption = 9999
  /\ log[Len(log)].resp.data[2].consumption = 10000
  /\ ret[1].m3 # NoneT /\ ret[2].m3 = NoneT

\* The successful token exchanges of the running call whose answer carried a
\* refreshToken member.
Refreshed ==
  SelectSeq(log, LAMBDA a : /\ a.name = "obtainKrakenToken"
                            /\ a.resp.status = 200 /\ ~a.resp.has_errors
                            /\ a.resp.refresh # "absent")

\* C19: in the Japan flow the refresh token drives re-authentication.  The
\* refreshToken of the last successful exchange that carried one is the stored
\* one; an exchange sent while a refresh token is stored sends it and neither
\* email nor password; email and password are sent only when none is stored.
\* (Exchanges are sent only when the cached token is missing or expired: C2.)
RefreshTokenDrivesReauthentication ==
  region = "japan" =>
    /\ Refreshed # <<>> => _refresh_token = Refreshed[Len(Refreshed)].resp.refresh
    /\ \A r \in Exchanges :
         /\ ~TokenValid
         /\ Truthy(_refresh_token) => r.vars = {<<"refreshToken", _refresh_token>>}
         /\ (\E v \in r.vars : v[1] \in {"email", "password"})
              => (~Truthy(_refresh_token)
                  /\ r.vars = {<<"email", email>>, <<"password", password>>})

\* C19 happens: the token has expired and the exchange for a new one carries
\* the refresh token of a client that also holds an email and a password.
RefreshTokenSentAfterExpiry ==
  /\ region = "japan" /\ Truthy(email) /\ Truthy(password)
  /\ _token # NoneT /\ now >= _token_expires
  /\ \E r \in Exchanges : r.vars = {<<"refreshToken", _refresh_token>>}

\* An entry all of whose members can be read.
WellFormed(r) ==
  /\ r.startAt.suffix \in {"Z", "+09:00"}
  /\ r.value.kind = "number"
  /\ r.costEstimate.kind # "invalid"

\* The positions of the well-formed entries of the answer.
WellFormedAt(properties) ==
  {t \in (1..2) \X (1..2) \X (1..MaxEvents) :
     /\ t[1] \in DOMAIN properties
     /\ t[2] \in DOMAIN properties[t[1]]
     /\ t[3] \in DOMAIN properties[t[1]][t[2]]
     /\ WellFormed(properties[t[1]][t[2]][t[3]])}

\* C20: the Japan readings are normalised.  The query's window ends at `end`,
\* or now, and starts at `start`, or 30 x periods minutes before its end.  The
\* call does not fail over an entry that cannot be read; it returns one reading
\* for each well-formed entry of any property and supply point, each ending 30
\* minutes after it starts, in ascending order of start.
ReadingsNormalised ==
  (op = "get_consumption" /\ pc \in {"parse", "returned", "raised"}) =>
    LET to == IF args.end = NoneT THEN now ELSE args.end
        data == args.properties
        wf == WellFormedAt(data)
        Same(x, r) == /\ x.start = ReadTimestamp(r.startAt)
                      /\ x.kwh = r.value.n
    IN /\ <<"toDatetime", to>> \in q.vars
       /\ args.start = NoneT => <<"fromDatetime", to - 30 * args.periods>> \in q.vars
       /\ args.start # NoneT => <<"fromDatetime", args.start>> \in q.vars
       /\ pc # "raised"
       /\ pc = "returned" =>
            /\ Len(ret) = Cardinality(wf)
            /\ \A i \in DOMAIN ret :
                 /\ ret[i].end.off = ret[i].start.off
                 /\ Instant(ret[i].end) = Instant(ret[i].start) + 30
                 /\ i > 1 => Instant(ret[i - 1].start) <= Instant(ret[i].start)
            /\ \A t \in wf :
                 LET r == data[t[1]][t[2]][t[3]]
                 IN Cardinality({i \in DOMAIN ret : Same(ret[i], r)})
                      = Cardinality({u \in wf : Same(Consumption(
                            ReadTimestamp(data[u[1]][u[2]][u[3]].startAt),
                            data[u[1]][u[2]][u[3]].value.n, 0), r)})

\* The sum of kwh over the readings at the positions in S.
RECURSIVE SumKwh(_, _)
SumKwh(consumption, S) ==
  IF S = {} THEN 0
  ELSE LET i == CHOOSE j \in S : TRUE
       IN consumption[i].kwh + SumKwh(consumption, S \ {i})

\* The sum of the totals of the keys in K.
RECURSIVE SumTotals(_, _)
SumTotals(daily, K) ==
  IF K = {} THEN 0
  ELSE LET k == CHOOSE j \in K : TRUE IN daily[k] + SumTotals(daily, K \ {k})

\* C21: get_daily_usage conserves energy.  It asks get_consumption for
\* days x 48 periods; the keys of the dict it returns are the dates on which a
\* reading starts, the total of a key is the sum of kwh of the readings that
\* start on that date, and the totals add up to the kwh of all readings.
DailyUsageConservesEnergy ==
  (op = "get_daily_usage" /\ pc \in {"parse", "returned", "raised"}) =>
    LET c == args.consumption
        On(day) == {i \in DOMAIN c : StrfDate(c[i].start) = day}
    IN /\ q.vars = {<<"periods", args.days * 48>>}
       /\ pc # "raised"
       /\ pc = "returned" =>
            /\ DOMAIN ret = {StrfDate(c[i].start) : i \in DOMAIN c}
            /\ \A day \in DOMAIN ret : ret[day] = SumKwh(c, On(day))
            /\ \A i \in DOMAIN c :
                 Cardinality({day \in DOMAIN ret : i \in On(day)}) = 1
            /\ SumTotals(ret, DOMAIN ret) = SumKwh(c, DOMAIN c)

\* C21 happens: two readings of different UTC offsets start on 2 January and
\* the dict returned has that one key, with the sum of the two.
TwoReadingsOnOneDate ==
  /\ op = "get_daily_usage" /\ pc = "returned"
  /\ Len(args.consumption) = 2
  /\ args.consumption[1].start.off # args.consumption[2].start.off
  /\ DOMAIN ret = {<<2024, 1, 2>>}
  /\ ret[<<2024, 1, 2>>] = 375
====
